---- MODULE Spec2Model ----
(***************************************************************************)
(* The css selector builder of src/06-objects-tasks.js.                    *)
(*                                                                         *)
(* cssSelectorBuilder is one shared object (the facade).  element, id and  *)
(* pseudoElement work on a shallow copy of `this` and return the copy;     *)
(* class, attr and pseudoClass change `this` and return it; combine and    *)
(* stringify change `this`.  The heap maps object references to the data   *)
(* fields of the objects; reference 0 is the facade.  A client holds the   *)
(* selectors it was given in a few slots and calls the methods on them.    *)
(* Texts are strings, \o is concatenation.                                 *)
(***************************************************************************)
EXTENDS Integers, Sequences, FiniteSets, TLC

VARIABLES
    heap,   \* reference -> [res, isEl, isId, isPsEl, index]
    sel,    \* slot -> the selector the client holds there (with its history)
    last,   \* the last call: receiver before and after, result, error
    calls   \* number of calls made so far

vars == <<heap, sel, last, calls>>

-----------------------------------------------------------------------------
(* Bounds and inputs *)

NumSlots == 3
MaxCalls == 3
SeqCalls == 5
TreeCalls == 6

Slots == 1..NumSlots
Values == {"a", "b"}
TreeValues == {"a"}
Combinators == {" ", "+", "~", ">"}
TreeCombinators == {"+", "~"}
Methods == {"element", "id", "class", "attr", "pseudoClass", "pseudoElement"}
TreeMethods == {"element", "class"}

-----------------------------------------------------------------------------
(* The facade object and its helpers *)

order == <<"element", "id", "class", "attribute", "pseudo-class", "pseudo-element">>

\* Array.prototype.indexOf: the 0-based position of the first match, else -1
indexOf(arr, x) ==
    IF \E i \in 1..Len(arr) : arr[i] = x
    THEN (CHOOSE i \in 1..Len(arr) :
              arr[i] = x /\ \A j \in 1..(i - 1) : arr[j] # x) - 1
    ELSE -1

cssSelectorBuilder ==
    [res |-> "", isEl |-> FALSE, isId |-> FALSE, isPsEl |-> FALSE, index |-> -1]

NoError == [name |-> "", message |-> ""]

\* getErr throwing the order message
getErr_OrderMessage ==
    [name |-> "getErr",
     message |-> "Selector parts should be arranged in the following order: element, id, class, attribute, pseudo-class, pseudo-element"]

getErr ==
    [name |-> "getErr",
     message |-> "Element, id and pseudo-element should not occur more then one time inside the selector"]

getErrOrder ==
    [name |-> "getErrOrder",
     message |-> "Selector parts should be arranged in the following order: element, id, class, attribute, pseudo-class, pseudo-element"]

NoRef == -1

\* a call that throws e, leaving the heap as h
Throw(h, e) == [heap |-> h, ret |-> NoRef, out |-> "", err |-> e]

\* a call that returns the object r
Return(h, r) == [heap |-> h, ret |-> r, out |-> "", err |-> NoError]

\* a call that returns the string s
ReturnText(h, s) == [heap |-> h, ret |-> NoRef, out |-> s, err |-> NoError]

\* the reference of the next object created
NewRef(h) ==
    CHOOSE r \in 1..Cardinality(DOMAIN h) :
        r \notin DOMAIN h /\ \A q \in 1..(r - 1) : q \in DOMAIN h

\* the heap with the new object o
Alloc(h, o) == (NewRef(h) :> o) @@ h

\* element without the isEl check
element_NoDuplicateCheck(h, this, value) ==
    LET cThis == [h[this] EXCEPT !.isEl = TRUE, !.res = @ \o value]
    IN  IF cThis.index > indexOf(order, "element")
        THEN Throw(h, getErrOrder)
        ELSE Return(Alloc(h, [cThis EXCEPT !.index = indexOf(order, "element")]),
                    NewRef(h))

element(h, this, value) ==
    IF h[this].isEl
    THEN Throw(h, getErr)
    ELSE LET cThis == [h[this] EXCEPT !.isEl = TRUE, !.res = @ \o value]
         IN  IF cThis.index > indexOf(order, "element")
             THEN Throw(h, getErrOrder)
             ELSE Return(Alloc(h, [cThis EXCEPT !.index = indexOf(order, "element")]),
                         NewRef(h))

\* id checking the order before the duplicate
id_OrderFirst(h, this, value) ==
    IF h[this].index > indexOf(order, "id")
    THEN Throw(h, getErrOrder)
    ELSE IF h[this].isId
         THEN Throw(h, getErr)
         ELSE Return(Alloc(h, [h[this] EXCEPT !.isId = TRUE, !.res = @ \o "#" \o value,
                                              !.index = indexOf(order, "id")]),
                     NewRef(h))

id(h, this, value) ==
    IF h[this].isId
    THEN Throw(h, getErr)
    ELSE LET cThis == [h[this] EXCEPT !.isId = TRUE, !.res = @ \o "#" \o value]
         IN  IF cThis.index > indexOf(order, "id")
             THEN Throw(h, getErrOrder)
             ELSE Return(Alloc(h, [cThis EXCEPT !.index = indexOf(order, "id")]),
                         NewRef(h))

\* class comparing with >= : a class after a class is refused
class_StrictOrder(h, this, value) ==
    IF h[this].index >= indexOf(order, "class")
    THEN Throw(h, getErrOrder)
    ELSE Return([h EXCEPT ![this].index = indexOf(order, "class"),
                          ![this].res = @ \o "." \o value],
                this)

\* class appending its text before the order check
class_AppendFirst(h, this, value) ==
    IF h[this].index > indexOf(order, "class")
    THEN Throw([h EXCEPT ![this].res = @ \o "." \o value], getErrOrder)
    ELSE Return([h EXCEPT ![this].index = indexOf(order, "class"),
                          ![this].res = @ \o "." \o value],
                this)

class(h, this, value) ==
    IF h[this].index > indexOf(order, "class")
    THEN Throw(h, getErrOrder)
    ELSE Return([h EXCEPT ![this].index = indexOf(order, "class"),
                          ![this].res = @ \o "." \o value],
                this)

\* attr leaving out the closing bracket
attr_NoClosingBracket(h, this, value) ==
    IF h[this].index > indexOf(order, "attribute")
    THEN Throw(h, getErrOrder)
    ELSE Return([h EXCEPT ![this].index = indexOf(order, "attribute"),
                          ![this].res = @ \o "[" \o value],
                this)

attr(h, this, value) ==
    IF h[this].index > indexOf(order, "attribute")
    THEN Throw(h, getErrOrder)
    ELSE Return([h EXCEPT ![this].index = indexOf(order, "attribute"),
                          ![this].res = @ \o "[" \o value \o "]"],
                this)

\* pseudoClass without the order check
pseudoClass_NoOrderCheck(h, this, value) ==
    Return([h EXCEPT ![this].index = indexOf(order, "pseudo-class"),
                     ![this].res = @ \o ":" \o value],
           this)

pseudoClass(h, this, value) ==
    IF h[this].index > indexOf(order, "pseudo-class")
    THEN Throw(h, getErrOrder)
    ELSE Return([h EXCEPT ![this].index = indexOf(order, "pseudo-class"),
                          ![this].res = @ \o ":" \o value],
                this)

\* pseudoElement working on this instead of a copy
pseudoElement_OnThis(h, this, value) ==
    IF h[this].isPsEl
    THEN Throw(h, getErr)
    ELSE IF h[this].index > indexOf(order, "pseudo-element")
         THEN Throw(h, getErrOrder)
         ELSE Return([h EXCEPT ![this].isPsEl = TRUE,
                               ![this].res = @ \o "::" \o value,
                               ![this].index = indexOf(order, "pseudo-element")],
                     this)

pseudoElement(h, this, value) ==
    IF h[this].isPsEl
    THEN Throw(h, getErr)
    ELSE LET cThis == [h[this] EXCEPT !.isPsEl = TRUE, !.res = @ \o "::" \o value]
         IN  IF cThis.index > indexOf(order, "pseudo-element")
             THEN Throw(h, getErrOrder)
             ELSE Return(Alloc(h, [cThis EXCEPT !.index = indexOf(order, "pseudo-element")]),
                         NewRef(h))

\* stringify that resets the seen-flags as well
stringify_ResetsFlags(h, this) ==
    LET buff == h[this].res
    IN  ReturnText([h EXCEPT ![this] = cssSelectorBuilder], buff)

\* stringify that resets the rank and keeps the text
stringify_KeepsText(h, this) ==
    LET buff == h[this].res
    IN  ReturnText([h EXCEPT ![this].index = -1], buff)

stringify(h, this) ==
    LET buff == h[this].res
    IN  ReturnText([h EXCEPT ![this].res = "", ![this].index = -1], buff)

\* selector1.stringify() runs first, then selector2.stringify(), then the
\* assignment to this.res
combine(h, this, selector1, combinator, selector2) ==
    LET s1 == stringify(h, selector1)
        s2 == stringify(s1.heap, selector2)
    IN  Return([s2.heap EXCEPT ![this].res = s1.out \o " " \o combinator \o " " \o s2.out],
               this)

\* the call this.m(value) of one of the six part methods
Invoke(h, this, m, value) ==
    CASE m = "element" -> element(h, this, value)
      [] m = "id" -> id(h, this, value)
      [] m = "class" -> class(h, this, value)
      [] m = "attr" -> attr(h, this, value)
      [] m = "pseudoClass" -> pseudoClass(h, this, value)
      [] m = "pseudoElement" -> pseudoElement(h, this, value)

-----------------------------------------------------------------------------
(* What the specification says of the parts (used to state the claims) *)

\* the rank of the kind a method appends, in the canonical order
Rank(m) ==
    CASE m = "element" -> 0
      [] m = "id" -> 1
      [] m = "class" -> 2
      [] m = "attr" -> 3
      [] m = "pseudoClass" -> 4
      [] m = "pseudoElement" -> 5

\* the textual fragment of a part
Fragment(m, value) ==
    CASE m = "element" -> value
      [] m = "id" -> "#" \o value
      [] m = "class" -> "." \o value
      [] m = "attr" -> "[" \o value \o "]"
      [] m = "pseudoClass" -> ":" \o value
      [] m = "pseudoElement" -> "::" \o value

Unique == {"element", "id", "pseudoElement"}

\* a sequence of method calls in canonical order, the unique kinds at most once
Canonical(ks) ==
    /\ \A i \in 1..(Len(ks) - 1) : Rank(ks[i]) <= Rank(ks[i + 1])
    /\ \A i, j \in 1..Len(ks) : (i # j /\ ks[i] = ks[j]) => ks[i] \notin Unique

\* the seen-flag of a method on an object (FALSE for the repeatable kinds)
Seen(o, m) ==
    CASE m = "element" -> o.isEl
      [] m = "id" -> o.isId
      [] m = "pseudoElement" -> o.isPsEl
      [] OTHER -> FALSE

-----------------------------------------------------------------------------
(* The client *)

NoSel ==
    [ref |-> NoRef, own |-> "", kinds |-> <<>>, shape |-> "none", nested |-> FALSE,
     solo |-> FALSE, valid |-> FALSE, rendered |-> FALSE]

Held == {s \in Slots : sel[s].ref # NoRef}

FreeSlot == CHOOSE s \in Slots : sel[s].ref = NoRef /\ \A t \in 1..(s - 1) : sel[t].ref # NoRef

\* objects nothing refers to any more are dropped; the facade stays
Collect(h, ss) == [r \in {q \in DOMAIN h : q = 0 \/ \E s \in Slots : ss[s].ref = q} |-> h[r]]

\* every other chain has been interrupted by this call
Interrupt(ss, s) == [t \in Slots |-> IF t = s THEN ss[t] ELSE [ss[t] EXCEPT !.solo = FALSE]]

NoCall ==
    [op |-> "init", start |-> FALSE, this |-> NoRef, value |-> "",
     pre |-> cssSelectorBuilder, post |-> cssSelectorBuilder,
     ret |-> NoRef, retObj |-> cssSelectorBuilder, out |-> "", err |-> NoError,
     solo |-> FALSE, valid |-> FALSE, kinds |-> <<>>, own |-> "",
     shape |-> "none", nested |-> FALSE, allRendered |-> FALSE,
     kept |-> TRUE, prevOp |-> "init", prevThis |-> NoRef]

\* the record of a call on `this` with result r; g is the history of the chain
Called(op, start, this, value, r, g) ==
    [op |-> op, start |-> start, this |-> this, value |-> value,
     pre |-> heap[this], post |-> r.heap[this],
     ret |-> r.ret,
     retObj |-> IF r.ret = NoRef THEN cssSelectorBuilder ELSE r.heap[r.ret],
     out |-> r.out, err |-> r.err,
     solo |-> g.solo, valid |-> g.valid, kinds |-> g.kinds, own |-> g.own,
     shape |-> g.shape, nested |-> g.nested,
     allRendered |-> (Held # {} /\ \A s \in Held : sel[s].rendered),
     kept |-> (r.heap = heap),
     prevOp |-> last.op, prevThis |-> last.this]

Init ==
    /\ heap = (0 :> cssSelectorBuilder)
    /\ sel = [s \in Slots |-> NoSel]
    /\ last = NoCall
    /\ calls = 0

\* builder.m(value): a chain is started at the facade
StartCall(m, value, max) ==
    /\ calls < max
    /\ \E s \in Slots : sel[s].ref = NoRef
    /\ LET r == Invoke(heap, 0, m, value)
           g == [NoSel EXCEPT !.ref = r.ret, !.own = Fragment(m, value),
                              !.kinds = <<m>>, !.shape = "chain",
                              !.solo = (heap[0] = cssSelectorBuilder),
                              !.valid = TRUE]
           ss == IF r.err = NoError
                 THEN [Interrupt(sel, 0) EXCEPT ![FreeSlot] = g]
                 ELSE Interrupt(sel, 0)
       IN  /\ sel' = ss
           /\ heap' = Collect(r.heap, ss)
           /\ last' = Called(m, TRUE, 0, value, r, g)
    /\ calls' = calls + 1

\* selector.m(value): the chain held in slot s goes on
AppendCall(s, m, value, max) ==
    /\ calls < max
    /\ sel[s].ref # NoRef
    /\ LET r == Invoke(heap, sel[s].ref, m, value)
           g == [sel[s] EXCEPT !.own = @ \o Fragment(m, value),
                               !.kinds = Append(@, m),
                               !.valid = @ /\ Canonical(Append(sel[s].kinds, m)),
                               !.rendered = FALSE]
           ss == IF r.err = NoError
                 THEN [Interrupt(sel, s) EXCEPT ![s] = [g EXCEPT !.ref = r.ret]]
                 ELSE [Interrupt(sel, s) EXCEPT ![s].solo = FALSE, ![s].valid = FALSE]
       IN  /\ sel' = ss
           /\ heap' = Collect(r.heap, ss)
           /\ last' = Called(m, FALSE, sel[s].ref, value, r, g)
    /\ calls' = calls + 1

\* builder.combine(selector1, combinator, selector2) on two selectors held
CombineCall(s1, combinator, s2, max) ==
    /\ calls < max
    /\ s1 # s2
    /\ sel[s1].ref # NoRef
    /\ sel[s2].ref # NoRef
    /\ LET r == combine(heap, 0, sel[s1].ref, combinator, sel[s2].ref)
           g == [NoSel EXCEPT !.ref = r.ret,
                              !.own = sel[s1].own \o " " \o combinator \o " " \o sel[s2].own,
                              !.shape = "combined",
                              !.nested = (sel[s1].shape = "combined"
                                          \/ sel[s2].shape = "combined"),
                              !.valid = (sel[s1].valid /\ sel[s2].valid)]
           ss == [Interrupt(sel, 0) EXCEPT ![s1] = g, ![s2] = NoSel]
       IN  /\ sel' = ss
           /\ heap' = Collect(r.heap, ss)
           /\ last' = Called("combine", FALSE, 0, combinator, r, g)
    /\ calls' = calls + 1

\* selector.stringify() on the selector held in slot s
StringifyCall(s, max) ==
    /\ calls < max
    /\ sel[s].ref # NoRef
    /\ LET r == stringify(heap, sel[s].ref)
           ss == [Interrupt(sel, s) EXCEPT ![s].rendered = TRUE, ![s].solo = FALSE,
                                           ![s].valid = FALSE]
       IN  /\ sel' = ss
           /\ heap' = Collect(r.heap, ss)
           /\ last' = Called("stringify", FALSE, sel[s].ref, "", r, sel[s])
    /\ calls' = calls + 1

\* any client: chains are started, continued, combined and rendered in any order
Start == \E m \in Methods, value \in Values : StartCall(m, value, MaxCalls)

Continue == \E s \in Slots, m \in Methods, value \in Values : AppendCall(s, m, value, MaxCalls)

Combine == \E s1, s2 \in Slots, c \in Combinators : CombineCall(s1, c, s2, MaxCalls)

Render == \E s \in Slots : StringifyCall(s, MaxCalls)

Next == Start \/ Continue \/ Combine \/ Render

Spec == Init /\ [][Next]_vars

\* a sequential client: a chain is started only when every selector held has
\* been rendered, and only a chain not yet rendered is continued
SeqStart ==
    /\ \A s \in Held : sel[s].rendered
    /\ \E m \in Methods, value \in Values : StartCall(m, value, SeqCalls)

SeqContinue ==
    \E s \in Slots, m \in Methods, value \in Values :
        /\ ~sel[s].rendered
        /\ AppendCall(s, m, value, SeqCalls)

SeqRender == \E s \in Slots : StringifyCall(s, SeqCalls)

SeqNext == SeqStart \/ SeqContinue \/ SeqRender

SpecSeq == Init /\ [][SeqNext]_vars

\* a client that builds trees of combine calls over short chains
TreeStart == \E m \in TreeMethods, value \in TreeValues : StartCall(m, value, TreeCalls)

TreeContinue ==
    \E s \in Slots, m \in TreeMethods, value \in TreeValues :
        /\ sel[s].shape = "chain"
        /\ ~sel[s].rendered
        /\ AppendCall(s, m, value, TreeCalls)

TreeCombine ==
    \E s1, s2 \in Slots, c \in TreeCombinators : CombineCall(s1, c, s2, TreeCalls)

TreeRender ==
    \E s \in Slots :
        /\ sel[s].shape = "combined"
        /\ StringifyCall(s, TreeCalls)

TreeNext == TreeStart \/ TreeContinue \/ TreeCombine \/ TreeRender

SpecTree == Init /\ [][TreeNext]_vars

-----------------------------------------------------------------------------
(* Claims *)

\* C1: a chain started at the facade in its initial state and run without
\* any other call in between, whose appends follow the canonical order: every
\* append succeeds, and stringify returns the fragments concatenated in call
\* order.
C1_CanonicalChainRenders ==
    /\ (last.op \in Methods /\ last.solo /\ Canonical(last.kinds))
           => (last.err = NoError /\ last.retObj.res = last.own)
    /\ (last.op = "stringify" /\ last.solo /\ Canonical(last.kinds))
           => last.out = last.own

C1_Witness ==
    /\ last.op = "stringify"
    /\ last.solo
    /\ last.kinds = <<"id", "class", "class">>
    /\ last.out = "#a.b.a"

\* C2: stringify of combine(A, c, B), A and B valid chains built at the
\* facade, returns textA, a space, c, a space, textB.
C2_CombineJoinsOperands ==
    (/\ last.op = "stringify"
     /\ last.prevOp = "combine"
     /\ last.shape = "combined"
     /\ ~last.nested
     /\ last.valid)
        => last.out = last.own

\* C3: a second element, id or pseudoElement call in one chain fails with the
\* duplicate-part error, whatever was appended in between; class, attr and
\* pseudoClass never fail with it.
C3_DuplicateRejected ==
    /\ (/\ last.op \in Unique
        /\ ~last.start
        /\ \E i \in 1..(Len(last.kinds) - 1) : last.kinds[i] = last.op)
           => last.err = getErr
    /\ (last.op \in Methods \ Unique) => last.err.name # "getErr"

C3_Witness ==
    /\ last.op = "element"
    /\ last.kinds = <<"element", "class", "element">>
    /\ last.err = getErr

\* C4 as stated: an append of kind k on a selector of last rank r fails with
\* the order error if r > rank(k), and otherwise succeeds and leaves rank(k).
C4_Original ==
    last.op \in Methods =>
        IF last.pre.index > Rank(last.op)
        THEN last.err = getErrOrder
        ELSE last.err = NoError /\ last.retObj.index = Rank(last.op)

\* C4 amended: the same for every append that is not a second element, id or
\* pseudoElement of its selector (that one fails with the duplicate-part
\* error, whatever the ranks).
C4_OrderRule ==
    /\ (last.op \in Methods /\ ~Seen(last.pre, last.op)) =>
           IF last.pre.index > Rank(last.op)
           THEN last.err = getErrOrder
           ELSE last.err = NoError /\ last.retObj.index = Rank(last.op)
    /\ (last.op \in Methods /\ Seen(last.pre, last.op)) => last.err = getErr

C4_Witness ==
    /\ last.op = "id"
    /\ last.kinds = <<"class", "id">>
    /\ last.pre.index = 2
    /\ last.err = getErrOrder

\* C5: once a chain started at the facade has been rendered, a new chain
\* started at the facade holds only its own text and is checked against
\* rank none.
C5_FreshAfterRender ==
    (last.start /\ last.allRendered) =>
        /\ last.pre.index = -1
        /\ last.err = NoError
        /\ last.retObj.res = last.own

\* C6: stringify returns the text of the selector it is called on and leaves
\* it with empty text and rank none; a second stringify right after it
\* returns the empty string.
C6_RenderResets ==
    last.op = "stringify" =>
        /\ last.out = last.pre.res
        /\ last.post.res = ""
        /\ last.post.index = -1
        /\ (last.prevOp = "stringify" /\ last.prevThis = last.this) => last.out = ""

C6_Witness ==
    /\ last.op = "stringify"
    /\ last.prevOp = "stringify"
    /\ last.prevThis = last.this
    /\ last.kinds = <<"element", "id">>
    /\ last.out = ""

\* C7: stringify of a tree of nested combine calls returns the texts of the
\* leaf chains in order, joined at each combine by space, combinator, space.
C7_NestedCombine ==
    (/\ last.op = "stringify"
     /\ last.prevOp = "combine"
     /\ last.shape = "combined"
     /\ last.nested
     /\ last.valid)
        => last.out = last.own

\* C8: an append that fails leaves the selector it was called on, and every
\* other object, as it was.
C8_FailedAppendKeepsState ==
    (last.op \in Methods /\ last.err # NoError) =>
        (last.post = last.pre /\ last.kept)

C8_Witness ==
    /\ last.op = "class"
    /\ last.err = getErrOrder
    /\ last.pre.res = "a::b"
    /\ last.post = last.pre

\* C9 as stated: the messages end in a full stop and read "more than".
C9_Original ==
    /\ last.err.name = "getErr" => last.err.message =
           "Element, id and pseudo-element should not occur more than one time inside the selector."
    /\ last.err.name = "getErrOrder" => last.err.message =
           "Selector parts should be arranged in the following order: element, id, class, attribute, pseudo-class, pseudo-element."

\* C9 amended: the duplicate-part error carries "Element, id and
\* pseudo-element should not occur more then one time inside the selector"
\* and the order error "Selector parts should be arranged in the following
\* order: element, id, class, attribute, pseudo-class, pseudo-element", both
\* without a full stop.
C9_Messages ==
    /\ (last.op \in Unique /\ Seen(last.pre, last.op)) => last.err.message =
           "Element, id and pseudo-element should not occur more then one time inside the selector"
    /\ (last.op \in Methods /\ ~Seen(last.pre, last.op) /\ last.pre.index > Rank(last.op))
           => last.err.message =
           "Selector parts should be arranged in the following order: element, id, class, attribute, pseudo-class, pseudo-element"
    /\ last.err.message \in
           {"",
            "Element, id and pseudo-element should not occur more then one time inside the selector",
            "Selector parts should be arranged in the following order: element, id, class, attribute, pseudo-class, pseudo-element"}

C9_Witness ==
    /\ last.op = "pseudoElement"
    /\ Seen(last.pre, last.op)
    /\ last.err.name = "getErr"

\* C10: every selector returned by an entry-point call at the facade starts
\* from empty text and rank none and holds only its own first fragment.
C10_EntryPointFresh ==
    last.start =>
        /\ last.pre.res = ""
        /\ last.pre.index = -1
        /\ last.err = NoError => last.retObj.res = Fragment(last.op, last.value)

\* the chains held that have not been rendered
Unrendered == {t \in Held : sel[t].shape = "chain" /\ ~sel[t].rendered}

\* the methods that change and return the selector they are called on
Mutating == {"class", "attr", "pseudoClass"}

\* C11: two chains started at the facade and built in any interleaving do
\* not alias: a chain rendered while another chain is still being built
\* returns its own fragments in call order, and a call that keeps a chain
\* canonical does not fail because of the other chain.
C11_ChainsIndependent ==
    /\ (/\ last.op = "stringify"
        /\ last.shape = "chain"
        /\ last.valid
        /\ Unrendered # {})
           => last.out = last.own
    /\ (/\ last.op \in Methods
        /\ last.valid
        /\ last.err = NoError
        /\ Cardinality(Unrendered) >= 2)
           => last.retObj.res = last.own
    /\ (/\ last.op \in Methods
        /\ last.valid
        /\ Cardinality(Unrendered) >= (IF last.start THEN 1 ELSE 2))
           => last.err = NoError

\* C12: each of the six append operations returns a new selector with the
\* text, rank and flags copied and extended, and leaves the selector it was
\* called on unchanged.
C12_AppendReturnsNewValue ==
    (last.op \in Methods /\ last.err = NoError) =>
        /\ last.ret # last.this
        /\ last.post = last.pre
        /\ last.retObj.res = last.pre.res \o Fragment(last.op, last.value)
        /\ last.retObj.index = Rank(last.op)
        /\ \A m \in Unique :
               Seen(last.retObj, m) = (Seen(last.pre, m) \/ m = last.op)

\* C13 as stated: on one selector instance, whatever appends and renders
\* are called on it, the rank after a successful append is not greater than
\* the rank after the next successful append on that instance.
C13_Original ==
    (/\ last.op \in Mutating
     /\ ~last.start
     /\ last.err = NoError
     /\ last.ret = last.this
     /\ Len(last.kinds) >= 2
     /\ last.kinds[Len(last.kinds) - 1] \in Mutating)
        => Rank(last.kinds[Len(last.kinds) - 1]) <= Rank(last.op)

\* C13 amended: a successful append on one selector instance never lowers
\* the rank that instance holds, which is the rank of the last successful
\* append on it, or none once stringify (called directly, or by combine on
\* its operands) has reset it; after such a reset an append of any rank is
\* accepted.
C13_RankMonotone ==
    /\ (last.op \in Methods /\ last.err = NoError /\ last.ret = last.this)
           => (last.pre.index <= last.post.index /\ last.post.index = Rank(last.op))
    /\ last.op = "stringify" => last.post.index = -1
    /\ \A r \in DOMAIN heap : heap[r].index \in -1..5

C13_Witness ==
    /\ last.op = "attr"
    /\ last.this # 0
    /\ last.ret = last.this
    /\ last.kinds = <<"id", "class", "attr">>
    /\ last.pre.index = 2
    /\ last.post.index = 3

\* C14: the text of a chain that has not been rendered is append-only: a
\* successful append of the chain adds its fragment to the text, and no call
\* that is not an append of the chain changes the chain's text.
C14_TextAppendOnly ==
    [][/\ (last'.op \in Methods /\ ~last'.start /\ last'.err = NoError)
           => last'.retObj.res = last'.pre.res \o Fragment(last'.op, last'.value)
       /\ \A s \in Slots :
              (/\ sel[s].shape = "chain"
               /\ ~sel[s].rendered
               /\ sel'[s].shape = "chain"
               /\ ~sel'[s].rendered
               /\ sel'[s].ref = sel[s].ref
               /\ sel'[s].kinds = sel[s].kinds)
                  => heap'[sel[s].ref].res = heap[sel[s].ref].res]_vars

\* C15: an element, id or pseudoElement call that was already made on the
\* chain and whose rank is lower than the selector's last rank fails with the
\* duplicate-part error, not the order error.
C15_DuplicateBeforeOrder ==
    (/\ last.op \in Unique
     /\ ~last.start
     /\ \E i \in 1..(Len(last.kinds) - 1) : last.kinds[i] = last.op
     /\ last.pre.index > Rank(last.op))
        => (last.err = getErr /\ last.err # getErrOrder)

C15_Witness ==
    /\ last.op = "id"
    /\ last.kinds = <<"id", "pseudoClass", "id">>
    /\ last.pre.index = 4
    /\ last.err = getErr

\* C16: the seen-flags isEl, isId and isPsEl of the facade are false in every
\* reachable state, and no call at the facade fails with the duplicate-part
\* error.
C16_FacadeFlagsFalse ==
    /\ ~heap[0].isEl
    /\ ~heap[0].isId
    /\ ~heap[0].isPsEl
    /\ last.this = 0 => last.err # getErr

C16_Witness ==
    /\ last.op = "pseudoElement"
    /\ last.start
    /\ last.retObj.isPsEl
    /\ last.err = NoError
    /\ \E s \in Slots : sel[s].kinds = <<"element", "pseudoElement">>
    /\ ~heap[0].isPsEl

\* C17: stringify leaves the three seen-flags of the selector as they were;
\* a selector that received an element, id or pseudo-element and was then
\* rendered still rejects a second one with the duplicate-part error.
C17_RenderKeepsFlags ==
    /\ last.op = "stringify" =>
           /\ last.post.isEl = last.pre.isEl
           /\ last.post.isId = last.pre.isId
           /\ last.post.isPsEl = last.pre.isPsEl
    /\ (/\ last.op \in Unique
        /\ ~last.start
        /\ last.prevOp = "stringify"
        /\ last.prevThis = last.this
        /\ \E i \in 1..(Len(last.kinds) - 1) : last.kinds[i] = last.op)
           => last.err = getErr

C17_Witness ==
    /\ last.op = "element"
    /\ last.prevOp = "stringify"
    /\ last.prevThis = last.this
    /\ last.kinds = <<"element", "element">>
    /\ last.pre.index = -1
    /\ last.err = getErr

====
